---- MODULE Spec2Model ----
(***************************************************************************)
(* A state-machine model of tcp_pubsub's publisher:                        *)
(*   Publisher_Impl (src/tcp_pubsub/src/publisher_impl.cpp) and the        *)
(*   Publisher facade (second half of src/tcp_pubsub/src/executor_impl.cpp)*)
(* PublisherSession and tcp_header.h are not part of the sources at hand;  *)
(* what the publisher needs of them is modelled from the design document   *)
(* and marked as such where it is defined.                                 *)
(***************************************************************************)
EXTENDS Integers, Sequences, FiniteSets, TLC

(***************************************************************************)
(* Bounds of the model                                                     *)
(***************************************************************************)
\* session objects the accept chain may construct and connect
MaxSessions == 2
\* user threads calling Publisher::send
NumSenders == 2
\* send calls made in one behaviour (all threads together)
MaxSends == 3
\* the same, where two threads send to two sessions
FanSends == 2
\* last reading of the steady clock
MaxClock == 2
\* largest configured buffer_max_count_
MaxCount == 2
\* the non-zero lifespan_ that is configured (0 is always tried as well)
MaxLifespan == 1
\* Publisher::cancel calls in one behaviour (explicit call, then destructor)
MaxCancels == 2
\* worker threads of the executor, and handlers posted to it
MaxWorkers == 2
MaxHandlers == 2
\* vectors the buffer pool ever creates
MaxSlots == 2
\* payload list shapes tried by the framing specification
MaxSegs == 2
MaxSegLen == 2

(***************************************************************************)
(* Wire header (tcp_header.h; from the design document, section 6)         *)
(***************************************************************************)
TcpHeaderSize == 16
RegularPayload == 0
OffHeaderSize == 1
OffType == 3
OffReserved == 4
OffDataSize == 5

NoBuf == <<>>

Sessions == 1..MaxSessions
Senders == 1..NumSenders
Workers == 1..MaxWorkers
Handlers == 1..MaxHandlers
Slots == 1..MaxSlots

(***************************************************************************)
(* Pure helpers of Publisher_Impl::send                                    *)
(***************************************************************************)
\* htole16 / htole64 followed by the store into the header overlay: the
\* value's bytes, least significant first
RECURSIVE htole(_, _)
htole(v, n) ==
    IF n = 0 THEN <<>> ELSE <<v % 256>> \o htole(v \div 256, n - 1)

\* std::vector<char>::resize on a buffer handed out by the pool: the old
\* bytes stay, new elements are value-initialised
Resize(old, n) ==
    [i \in 1..n |-> IF i <= Len(old) THEN old[i] ELSE 0]

\* a store of `bytes` at 1-based position `pos` of `buf`
Overlay(buf, pos, bytes) ==
    [i \in 1..Len(buf) |->
        IF i >= pos /\ i < pos + Len(bytes) THEN bytes[i - pos + 1] ELSE buf[i]]

\* for (payload : payloads) entire_payload_size += payload.second
RECURSIVE EntirePayloadSize(_)
EntirePayloadSize(payloads) ==
    IF payloads = <<>> THEN 0
    ELSE Head(payloads).len + EntirePayloadSize(Tail(payloads))

\* the memcpy loop: entries with a null pointer or no bytes are skipped and
\* do not advance current_position
RECURSIVE CopyPayloads(_, _, _)
CopyPayloads(buf, payloads, current_position) ==
    IF payloads = <<>> THEN buf
    ELSE LET payload == Head(payloads) IN
         IF payload.ptr /\ payload.len > 0
         THEN CopyPayloads(Overlay(buf, current_position + 1, payload.data),
                           Tail(payloads), current_position + payload.len)
         ELSE CopyPayloads(buf, Tail(payloads), current_position)

\* the header stores of send
WriteHeader(buf, entire_payload_size) ==
    LET b1 == Overlay(buf, OffHeaderSize, htole(TcpHeaderSize, 2))
        b2 == Overlay(b1, OffType, <<RegularPayload>>)
        b3 == Overlay(b2, OffReserved, <<0>>)
    IN  Overlay(b3, OffDataSize, htole(entire_payload_size, 8))

\* buffer_pool.allocate() handed out a vector holding `old`; what the vector
\* holds when send is done with it
FillBuffer(old, payloads) ==
    LET header_size == TcpHeaderSize
        entire_payload_size == EntirePayloadSize(payloads)
        complete_size == header_size + entire_payload_size
    IN  CopyPayloads(WriteHeader(Resize(old, complete_size), entire_payload_size),
                     payloads, header_size)

(***************************************************************************)
(* State                                                                   *)
(***************************************************************************)
VARIABLES
    \* Publisher_Impl
    is_running_,                \* std::atomic<bool>
    acceptor_,                  \* "closed" | "open" | "bound" | "listening"
    publisher_sessions_,        \* std::vector<shared_ptr<PublisherSession>>
    publisher_sessions_mutex_,  \* 0: free, t: held by send thread t (fan-out)
    transient_local_buffers_,   \* std::list<TransientLocalElement>
    transient_local_mtx_,       \* 0: free, t: held by send thread t
    transient_local_setting_,   \* [buffer_max_count_, lifespan_]
    \* the Publisher constructor (it calls start) and the user's threads
    start_pc,                   \* "new" | "done"
    snd,                        \* per send thread: position and locals of send
    cnl,                        \* the thread calling Publisher::cancel
    \* the accept chain on the io_service
    accept_session,             \* the session the armed async_accept captured
    accept_op,                  \* "none" | "pending" | "ok" | "err"
    accept_pc,                  \* the completion handler: "idle" | "add" | "rearm"
    accepts_armed,              \* async_accept operations issued and not yet handled
    \* PublisherSession objects
    handshake_state,            \* AwaitLocalSend, AwaitRemoteRecv, Established, Failed
    send_state,                 \* "Idle" | "Writing"
    pending_frame,              \* NoFrame or the frame to write next
    close_pc,                   \* close-callback: "none" | "io" | "cancel" | "done"
    ready_pc,                   \* on_ready hook: "none" | "push" | "done"
    buffers_to_send,            \* the hook's snapshot of the retained buffers
    \* the steady clock
    now,
    \* what the environment does in one behaviour; set once, never changed
    limits,                     \* [senders, sends, sessions, clock, cancels]
    \* Executor_Impl
    dummy_work_,                \* TRUE while the io_service::work object exists
    io_stopped,                 \* the io_service is stopped
    thread_pool_,               \* per worker: "none" | "spawned" | "run" | "handler" | "exited"
    handler_queue,              \* handlers that are ready to run, oldest first
    running_handler,            \* per worker: the handler it runs, 0 when none
    exec_pc,                    \* [start, stop]: progress of start() and of stop()
    executed,                   \* history: handlers that have run
    pending_at_stop,            \* history: handlers that were queued when stop() was called
    in_run_at_stop,             \* history: workers that were inside run() at that moment
    \* buffer_pool
    slot_bytes,                 \* per pooled vector: the bytes it holds
    slot_of_call,               \* history: the pooled vector each send call checked out
    \* history, written and never read by the program
    calls,                      \* send calls made so far
    sent_log,                   \* payload lists of the calls that passed the gate
    offered,                    \* per session: buffers passed to sendDataBuffer
    pushed,                     \* per session: buffers passed to pushTransientBuffer
    wire,                       \* per session: payload frames written to its socket
    close_calls,                \* per session: runs of the close-callback
    aged_out                    \* some entry was evicted because of its age

pubVars == <<is_running_, acceptor_, publisher_sessions_, publisher_sessions_mutex_,
             transient_local_buffers_, transient_local_mtx_, transient_local_setting_>>
userVars == <<start_pc, snd, cnl>>
acceptVars == <<accept_session, accept_op, accept_pc, accepts_armed>>
sessVars == <<handshake_state, send_state, pending_frame, close_pc, ready_pc,
              buffers_to_send>>
histVars == <<calls, sent_log, offered, pushed, wire, close_calls, aged_out>>
execVars == <<dummy_work_, io_stopped, thread_pool_, handler_queue, running_handler,
              exec_pc, executed, pending_at_stop, in_run_at_stop>>
poolVars == <<slot_bytes, slot_of_call>>
vars == <<pubVars, userVars, acceptVars, sessVars, now, limits, execVars, poolVars, histVars>>

NoFrame == [kind |-> "none", buf |-> NoBuf]
Frame(kind, buf) == [kind |-> kind, buf |-> buf]

IdleSend == [pc |-> "idle", payloads |-> <<>>, old |-> NoBuf, buffer |-> NoBuf,
             idx |-> 0, now_tp |-> 0, ret |-> "none"]
IdleCancel == [pc |-> "idle", snap |-> <<>>, idx |-> 0, done |-> 0]

\* the k-th well-formed message of the concurrency specification: one segment
\* of one byte, k
Msg(k) == << [ptr |-> TRUE, len |-> 1, data |-> <<k>>] >>

\* One (pointer, length) entry of a payload list, the i-th of its list: a
\* null pointer has no bytes behind it, any other points at len bytes.
PayloadEntry(i, ptr, len) ==
    [ptr |-> ptr, len |-> len,
     data |-> IF ptr THEN [j \in 1..len |-> 10 * i + j] ELSE <<>>]

\* std::vector<std::pair<const char* const, const size_t>>, up to MaxSegs
\* entries of up to MaxSegLen bytes
PayloadLists ==
    UNION { { [i \in 1..n |-> PayloadEntry(i, ptrs[i], lens[i])] :
                ptrs \in [1..n -> BOOLEAN], lens \in [1..n -> 0..MaxSegLen] } :
            n \in 0..MaxSegs }

\* buffer_pool.allocate() hands out a new, empty vector or a recycled one that
\* still holds the bytes of an earlier, larger frame
RecycledBuffer == [i \in 1..(TcpHeaderSize + MaxSegs * MaxSegLen + 1) |-> 255]
AllocatedBuffers == {NoBuf, RecycledBuffer}

Settings ==
    { [buffer_max_count_ |-> k, lifespan_ |-> l] : k \in 0..MaxCount, l \in {0, MaxLifespan} }

\* a constructor that makes no io_service::work
NoDummyWork == FALSE

\* dummy_work_(std::make_shared<asio::io_service::work>(*io_service_))
DummyWorkConstructed == TRUE

\* Executor_Impl::Executor_Impl: an io_service with its work object, no thread
ExecutorConstructed ==
    /\ dummy_work_ = DummyWorkConstructed
    /\ io_stopped = FALSE
    /\ thread_pool_ = [w \in Workers |-> "none"]
    /\ handler_queue = <<>>
    /\ running_handler = [w \in Workers |-> 0]
    /\ exec_pc = [start |-> "new", stop |-> "idle"]
    /\ executed = {}
    /\ pending_at_stop = {}
    /\ in_run_at_stop = {}

\* the publisher's buffer_pool, empty
PoolConstructed ==
    /\ slot_bytes = [b \in Slots |-> NoBuf]
    /\ slot_of_call = <<>>

\* Publisher_Impl::Publisher_Impl, for one transient_local_setting
InitWith(setting, env) ==
    /\ limits = env
    /\ is_running_ = FALSE
    /\ acceptor_ = "closed"
    /\ publisher_sessions_ = <<>>
    /\ publisher_sessions_mutex_ = 0
    /\ transient_local_buffers_ = <<>>
    /\ transient_local_mtx_ = 0
    /\ transient_local_setting_ = setting
    /\ start_pc = "new"
    /\ snd = [t \in Senders |-> IdleSend]
    /\ cnl = IdleCancel
    /\ accept_session = 0
    /\ accept_op = "none"
    /\ accept_pc = "idle"
    /\ accepts_armed = 0
    /\ ExecutorConstructed
    /\ PoolConstructed
    /\ handshake_state = [s \in Sessions |-> "AwaitLocalSend"]
    /\ send_state = [s \in Sessions |-> "Idle"]
    /\ pending_frame = [s \in Sessions |-> NoFrame]
    /\ close_pc = [s \in Sessions |-> "none"]
    /\ ready_pc = [s \in Sessions |-> "none"]
    /\ buffers_to_send = [s \in Sessions |-> <<>>]
    /\ now = 0
    /\ calls = 0
    /\ sent_log = <<>>
    /\ offered = [s \in Sessions |-> <<>>]
    /\ pushed = [s \in Sessions |-> <<>>]
    /\ wire = [s \in Sessions |-> <<>>]
    /\ close_calls = [s \in Sessions |-> 0]
    /\ aged_out = FALSE

(***************************************************************************)
(* Transient-local retention                                               *)
(***************************************************************************)
\* the loop without its count clause
RECURSIVE purgeByAgeOnly(_, _)
purgeByAgeOnly(buffers, now_tp) ==
    IF /\ transient_local_setting_.lifespan_ > 0
       /\ buffers # <<>>
       /\ now_tp - buffers[1].enqueue_tp_ > transient_local_setting_.lifespan_
    THEN purgeByAgeOnly(Tail(buffers), now_tp)
    ELSE buffers

\* the loop without its age clause
RECURSIVE purgeByCountOnly(_, _)
purgeByCountOnly(buffers, now_tp) ==
    IF Len(buffers) > transient_local_setting_.buffer_max_count_
    THEN purgeByCountOnly(Tail(buffers), now_tp)
    ELSE buffers

\* the loop with pop_back in place of pop_front
RECURSIVE purgeNewestFirst(_, _)
purgeNewestFirst(buffers, now_tp) ==
    IF \/ Len(buffers) > transient_local_setting_.buffer_max_count_
       \/ /\ transient_local_setting_.lifespan_ > 0
          /\ buffers # <<>>
          /\ now_tp - buffers[1].enqueue_tp_ > transient_local_setting_.lifespan_
    THEN purgeNewestFirst(SubSeq(buffers, 1, Len(buffers) - 1), now_tp)
    ELSE buffers

\* while (size > buffer_max_count_ || (lifespan_ > 0 && !empty &&
\*        now_tp - front().enqueue_tp_ > lifespan_)) pop_front();
RECURSIVE purgeExpiredTransientLocalBuffers(_, _)
purgeExpiredTransientLocalBuffers(buffers, now_tp) ==
    IF \/ Len(buffers) > transient_local_setting_.buffer_max_count_
       \/ /\ transient_local_setting_.lifespan_ > 0
          /\ buffers # <<>>
          /\ now_tp - buffers[1].enqueue_tp_ > transient_local_setting_.lifespan_
    THEN purgeExpiredTransientLocalBuffers(Tail(buffers), now_tp)
    ELSE buffers

\* history of the same loop: whether one of its pop_front calls was made with
\* the count within bounds, that is, because of the entry's age alone
RECURSIVE PurgePopsForAge(_, _)
PurgePopsForAge(buffers, now_tp) ==
    IF purgeExpiredTransientLocalBuffers(buffers, now_tp) = buffers THEN FALSE
    ELSE \/ Len(buffers) <= transient_local_setting_.buffer_max_count_
         \/ PurgePopsForAge(Tail(buffers), now_tp)

\* the concatenation with every buffer inserted at big_buffer->begin()
RECURSIVE BigBufferNewestFirst(_)
BigBufferNewestFirst(buffers) ==
    IF buffers = <<>> THEN <<>>
    ELSE BigBufferNewestFirst(Tail(buffers)) \o Head(buffers)

\* big_buffer->insert(big_buffer->end(), buffer->begin(), buffer->end()) for
\* every buffer of the snapshot
RECURSIVE BigBuffer(_)
BigBuffer(buffers) ==
    IF buffers = <<>> THEN <<>>
    ELSE BigBuffer(SubSeq(buffers, 1, Len(buffers) - 1)) \o buffers[Len(buffers)]

(***************************************************************************)
(* PublisherSession (publisher_session.cpp is not among the sources; from   *)
(* the design document, section 4.4).  Each operator gives the session's    *)
(* [send_state, pending_frame, wire] after the call.                        *)
(***************************************************************************)
SessionIo(s) ==
    [send_state |-> send_state[s], pending_frame |-> pending_frame[s], wire |-> wire[s]]

\* start(): AwaitLocalSend -> AwaitRemoteRecv, the handshake frame is queued
SessionStart(s) ==
    [send_state |-> "Writing", pending_frame |-> NoFrame, wire |-> wire[s]]

\* send_data_buffer that takes regular payloads during the handshake
sendDataBufferBeforeReady(s, buffer) ==
    IF handshake_state[s] = "Failed" THEN SessionIo(s)
    ELSE IF send_state[s] = "Writing"
         THEN IF pending_frame[s].kind = "replay" THEN SessionIo(s)
              ELSE [SessionIo(s) EXCEPT !.pending_frame = Frame("regular", buffer)]
         ELSE [SessionIo(s) EXCEPT !.send_state = "Writing",
                                   !.wire = Append(@, Frame("regular", buffer))]

\* send_data_buffer(frame): regular payloads are accepted once on_ready has
\* run; while a write is in flight the newest frame is kept as pending_frame,
\* but a pending replay is not given up for a regular frame
sendDataBuffer(s, buffer) ==
    IF handshake_state[s] # "Established" THEN SessionIo(s)
    ELSE IF send_state[s] = "Writing"
         THEN IF pending_frame[s].kind = "replay" THEN SessionIo(s)
              ELSE [SessionIo(s) EXCEPT !.pending_frame = Frame("regular", buffer)]
         ELSE [SessionIo(s) EXCEPT !.send_state = "Writing",
                                   !.wire = Append(@, Frame("regular", buffer))]

\* push_transient_buffer(frame): if a write is in flight the replay is queued
\* as pending_frame, else it is written at once
pushTransientBuffer(s, big_buffer) ==
    IF handshake_state[s] = "Failed" THEN SessionIo(s)
    ELSE IF send_state[s] = "Writing"
         THEN [SessionIo(s) EXCEPT !.pending_frame = Frame("replay", big_buffer)]
         ELSE [SessionIo(s) EXCEPT !.send_state = "Writing",
                                   !.wire = Append(@, Frame("replay", big_buffer))]

\* a completion that writes the pending frame and keeps it pending
writeCompletedKeepsPending(s) ==
    IF pending_frame[s] # NoFrame
    THEN [SessionIo(s) EXCEPT !.wire = Append(@, pending_frame[s])]
    ELSE [SessionIo(s) EXCEPT !.send_state = "Idle"]

\* completion of an asynchronous write: the pending frame is written next
writeCompleted(s) ==
    IF pending_frame[s] # NoFrame
    THEN [SessionIo(s) EXCEPT !.pending_frame = NoFrame,
                              !.wire = Append(@, pending_frame[s])]
    ELSE [SessionIo(s) EXCEPT !.send_state = "Idle"]

SetSessionIo(s, io) ==
    /\ send_state' = [send_state EXCEPT ![s] = io.send_state]
    /\ pending_frame' = [pending_frame EXCEPT ![s] = io.pending_frame]
    /\ wire' = [wire EXCEPT ![s] = io.wire]

(***************************************************************************)
(* Publisher_Impl::start and the accept chain                              *)
(***************************************************************************)
StartOutcomes == {"ok", "parse", "open", "reuse_address", "bind", "listen"}

\* the acceptor as start leaves it when the named step fails ("ok": none does)
AcceptorAfterStart(outcome) ==
    CASE outcome \in {"parse", "open"} -> "closed"
      [] outcome \in {"reuse_address", "bind"} -> "open"
      [] outcome = "listen" -> "bound"
      [] OTHER -> "listening"

\* acceptClient(): a new session object is constructed and async_accept is
\* issued for it; on an acceptor that is not listening the operation
\* completes with an error at once
acceptClient(acceptor) ==
    /\ accept_session' = accept_session + 1
    /\ accept_op' = IF acceptor = "listening" THEN "pending" ELSE "err"
    /\ accepts_armed' = accepts_armed + 1

\* start(address, port), called by the Publisher constructor
Start(outcome) ==
    /\ start_pc = "new"
    /\ start_pc' = "done"
    /\ acceptor_' = AcceptorAfterStart(outcome)
    /\ IF outcome = "ok"
       THEN /\ is_running_' = TRUE
            /\ acceptClient(acceptor_')
       ELSE UNCHANGED <<is_running_, accept_session, accept_op, accepts_armed>>
    /\ UNCHANGED <<publisher_sessions_, publisher_sessions_mutex_,
                   transient_local_buffers_, transient_local_mtx_,
                   transient_local_setting_, snd, cnl, accept_pc, sessVars, now, limits,
                   execVars, poolVars, histVars>>

\* a subscriber connects: the armed accept completes successfully and its
\* handler is queued on the io_service
Connect ==
    /\ accept_op = "pending"
    /\ accept_session <= limits.sessions
    /\ accept_op' = "ok"
    /\ UNCHANGED <<pubVars, userVars, accept_session, accept_pc, accepts_armed, sessVars, now, limits, execVars, poolVars,
                   histVars>>

\* the armed accept fails for a reason of the operating system
AcceptError ==
    /\ accept_op = "pending"
    /\ accept_op' = "err"
    /\ UNCHANGED <<pubVars, userVars, accept_session, accept_pc, accepts_armed, sessVars, now, limits, execVars, poolVars,
                   histVars>>

\* a handler that goes on to acceptClient() after an error
RearmAfterAcceptError == "rearm"

\* if (ec) { ...; return; }: the handler is over, nothing is armed
AfterAcceptError == "idle"

\* the async_accept handler up to and including session->start()
AcceptHandlerBegin ==
    /\ accept_pc = "idle"
    /\ accept_op \in {"ok", "err"}
    /\ accept_op' = "none"
    /\ accepts_armed' = accepts_armed - 1
    /\ IF accept_op = "err"
       THEN /\ accept_pc' = AfterAcceptError
            /\ UNCHANGED <<handshake_state, send_state, pending_frame, wire>>
       ELSE /\ accept_pc' = "add"
            /\ handshake_state' = [handshake_state EXCEPT ![accept_session] = "AwaitRemoteRecv"]
            /\ SetSessionIo(accept_session, SessionStart(accept_session))
    /\ UNCHANGED <<pubVars, userVars, accept_session, close_pc, ready_pc,
                   buffers_to_send, now, limits, execVars, poolVars, calls, sent_log, offered, pushed,
                   close_calls, aged_out>>

\* the handler's push_back under publisher_sessions_mutex_
AcceptHandlerAdd ==
    /\ accept_pc = "add"
    /\ publisher_sessions_mutex_ = 0
    /\ publisher_sessions_' = Append(publisher_sessions_, accept_session)
    /\ accept_pc' = "rearm"
    /\ UNCHANGED <<is_running_, acceptor_, publisher_sessions_mutex_,
                   transient_local_buffers_, transient_local_mtx_,
                   transient_local_setting_, userVars, accept_session, accept_op,
                   accepts_armed, sessVars, now, limits, execVars, poolVars, histVars>>

\* the handler's closing me->acceptClient()
AcceptHandlerRearm ==
    /\ accept_pc = "rearm"
    /\ accept_pc' = "idle"
    /\ acceptClient(acceptor_)
    /\ UNCHANGED <<pubVars, userVars, sessVars, now, limits, execVars, poolVars, histVars>>

(***************************************************************************)
(* The close-callback and Publisher_Impl::cancel                           *)
(***************************************************************************)
\* std::find followed by erase; the vector is left alone when the session is
\* not in it (the handler then logs an Error)
RECURSIVE EraseSession(_, _)
EraseSession(sessions, s) ==
    IF sessions = <<>> THEN <<>>
    ELSE IF Head(sessions) = s THEN Tail(sessions)
    ELSE <<Head(sessions)>> \o EraseSession(Tail(sessions), s)

\* acceptor_.close(ec); acceptor_.cancel(ec): an armed accept completes with
\* operation_canceled, a completion that is already queued stays as it is
AcceptOpAfterClose(op) == IF op = "pending" THEN "err" ELSE op

\* cancel() returns when the loop over its copy is over
CancelLoop(c) ==
    IF c.idx > Len(c.snap) THEN [IdleCancel EXCEPT !.done = c.done + 1] ELSE c

\* a session's socket fails (peer reset, end of stream, malformed frame): the
\* session closes itself and is about to run its close-callback
IoError(s) ==
    /\ handshake_state[s] \in {"AwaitRemoteRecv", "Established"}
    /\ handshake_state' = [handshake_state EXCEPT ![s] = "Failed"]
    /\ close_pc' = [close_pc EXCEPT ![s] = "io"]
    /\ send_state' = [send_state EXCEPT ![s] = "Idle"]
    /\ pending_frame' = [pending_frame EXCEPT ![s] = NoFrame]
    /\ UNCHANGED <<pubVars, userVars, acceptVars, ready_pc, buffers_to_send, now, limits, execVars, poolVars,
                   histVars>>

\* publisher_session_closed_handler(session), on the thread that closed the
\* session; cancel goes on with its loop when the callback it made returns
CloseCallback(s) ==
    /\ close_pc[s] \in {"io", "cancel"}
    /\ publisher_sessions_mutex_ = 0
    /\ publisher_sessions_' = EraseSession(publisher_sessions_, s)
    /\ close_calls' = [close_calls EXCEPT ![s] = @ + 1]
    /\ close_pc' = [close_pc EXCEPT ![s] = "done"]
    /\ cnl' = IF close_pc[s] = "cancel"
              THEN CancelLoop([cnl EXCEPT !.pc = "loop", !.idx = @ + 1])
              ELSE cnl
    /\ UNCHANGED <<is_running_, acceptor_, publisher_sessions_mutex_,
                   transient_local_buffers_, transient_local_mtx_,
                   transient_local_setting_, start_pc, snd, acceptVars,
                   handshake_state, send_state, pending_frame, ready_pc,
                   buffers_to_send, now, limits, execVars, poolVars, calls, sent_log, offered, pushed, wire,
                   aged_out>>

\* a cancel that leaves the flag alone
RunningLeftAsItIs == is_running_

\* the value cancel() stores in is_running_
RunningAfterCancel == FALSE

\* the state cancel() reads and writes
PublisherState ==
    [acceptor_ |-> acceptor_, is_running_ |-> is_running_, accept_op |-> accept_op,
     publisher_sessions_ |-> publisher_sessions_, handshake_state |-> handshake_state,
     close_calls |-> close_calls]

\* cancel()'s loop over its copy of the list, run to its end: a session that
\* is not closed yet closes and its close-callback erases it
RECURSIVE cancelSessions(_, _)
cancelSessions(P, snap) ==
    IF snap = <<>> THEN P
    ELSE LET s == Head(snap) IN
         cancelSessions(
             IF P.handshake_state[s] = "Failed" THEN P
             ELSE [P EXCEPT !.handshake_state[s] = "Failed",
                            !.publisher_sessions_ = EraseSession(@, s),
                            !.close_calls[s] = @ + 1],
             Tail(snap))

\* one whole call of cancel() that no other thread interrupts
cancelRun(P) ==
    cancelSessions([P EXCEPT !.acceptor_ = "closed",
                             !.accept_op = AcceptOpAfterClose(@),
                             !.is_running_ = RunningAfterCancel],
                   P.publisher_sessions_)

\* cancel(): acceptor_.close and acceptor_.cancel
CancelClose ==
    /\ start_pc = "done"
    /\ cnl.pc = "idle"
    /\ cnl.done < limits.cancels
    /\ cnl' = [cnl EXCEPT !.pc = "flag"]
    /\ acceptor_' = "closed"
    /\ accept_op' = AcceptOpAfterClose(accept_op)
    /\ UNCHANGED <<is_running_, publisher_sessions_, publisher_sessions_mutex_,
                   transient_local_buffers_, transient_local_mtx_,
                   transient_local_setting_, start_pc, snd, accept_session,
                   accept_pc, accepts_armed, sessVars, now, limits, execVars, poolVars,
                   histVars>>

\* cancel(): is_running_ = false
CancelFlag ==
    /\ cnl.pc = "flag"
    /\ cnl' = [cnl EXCEPT !.pc = "snap"]
    /\ is_running_' = RunningAfterCancel
    /\ UNCHANGED <<acceptor_, publisher_sessions_, publisher_sessions_mutex_,
                   transient_local_buffers_, transient_local_mtx_,
                   transient_local_setting_, start_pc, snd, acceptVars, sessVars,
                   now, limits, execVars, poolVars, histVars>>

\* cancel(): the copy of publisher_sessions_ under the mutex
CancelSnapshot ==
    /\ cnl.pc = "snap"
    /\ publisher_sessions_mutex_ = 0
    /\ cnl' = CancelLoop([cnl EXCEPT !.pc = "loop", !.snap = publisher_sessions_,
                                      !.idx = 1])
    /\ UNCHANGED <<pubVars, start_pc, snd, acceptVars, sessVars, now, limits, execVars, poolVars, histVars>>

\* cancel(): session->cancel() for the next session of the copy; a session
\* that is closed already does nothing, any other closes its socket and runs
\* its close-callback on this thread
CancelSession ==
    /\ cnl.pc = "loop"
    /\ LET s == cnl.snap[cnl.idx] IN
       IF handshake_state[s] = "Failed"
       THEN /\ cnl' = CancelLoop([cnl EXCEPT !.idx = @ + 1])
            /\ UNCHANGED <<handshake_state, close_pc, send_state, pending_frame>>
       ELSE /\ cnl' = [cnl EXCEPT !.pc = "wait"]
            /\ handshake_state' = [handshake_state EXCEPT ![s] = "Failed"]
            /\ close_pc' = [close_pc EXCEPT ![s] = "cancel"]
            /\ send_state' = [send_state EXCEPT ![s] = "Idle"]
            /\ pending_frame' = [pending_frame EXCEPT ![s] = NoFrame]
    /\ UNCHANGED <<pubVars, start_pc, snd, acceptVars, ready_pc, buffers_to_send,
                   now, limits, execVars, poolVars, histVars>>

(***************************************************************************)
(* The on_ready hook: transient_local_push_handler                         *)
(***************************************************************************)
\* on_ready has returned: the session accepts regular payloads from now on
Established(s) ==
    IF handshake_state[s] = "AwaitRemoteRecv" THEN "Established" ELSE handshake_state[s]

\* the subscriber's handshake frame has been read and the session invokes
\* on_ready, once
ReadyInvoked(s) ==
    /\ handshake_state[s] = "AwaitRemoteRecv"
    /\ ready_pc[s] = "none"

\* the buffers of the retained elements, in list order
RECURSIVE SnapshotBuffers(_)
SnapshotBuffers(buffers) ==
    IF buffers = <<>> THEN <<>>
    ELSE <<Head(buffers).buffer_>> \o SnapshotBuffers(Tail(buffers))

\* the hook with the feature disabled: it returns at once
ReplayDisabled(s) ==
    /\ ReadyInvoked(s)
    /\ transient_local_setting_.buffer_max_count_ = 0
    /\ ready_pc' = [ready_pc EXCEPT ![s] = "done"]
    /\ handshake_state' = [handshake_state EXCEPT ![s] = Established(s)]
    /\ UNCHANGED <<pubVars, userVars, acceptVars, send_state, pending_frame,
                   close_pc, buffers_to_send, now, limits, execVars, poolVars, histVars>>

\* the io_service thread that runs the hook of session s, as a mutex holder
HookThread(s) == NumSenders + s

\* the closing brace of the hook's block: the lock_guard lk is released
HookLockReleased(s) == 0

\* the hook's critical section: purge at steady_clock::now(), then copy the
\* buffer pointers; it returns when there is nothing to send
ReplaySnapshot(s) ==
    /\ ReadyInvoked(s)
    /\ transient_local_setting_.buffer_max_count_ # 0
    /\ transient_local_mtx_ = 0
    /\ LET kept == purgeExpiredTransientLocalBuffers(transient_local_buffers_, now)
           copy == SnapshotBuffers(kept)
       IN  /\ transient_local_buffers_' = kept
           /\ transient_local_mtx_' = HookLockReleased(s)
           /\ aged_out' = (aged_out \/ PurgePopsForAge(transient_local_buffers_, now))
           /\ IF copy = <<>>
              THEN /\ ready_pc' = [ready_pc EXCEPT ![s] = "done"]
                   /\ handshake_state' = [handshake_state EXCEPT ![s] = Established(s)]
                   /\ UNCHANGED buffers_to_send
              ELSE /\ ready_pc' = [ready_pc EXCEPT ![s] = "push"]
                   /\ buffers_to_send' = [buffers_to_send EXCEPT ![s] = copy]
                   /\ UNCHANGED handshake_state
    /\ UNCHANGED <<is_running_, acceptor_, publisher_sessions_,
                   publisher_sessions_mutex_,
                   transient_local_setting_, userVars, acceptVars, send_state,
                   pending_frame, close_pc, now, limits, execVars, poolVars, calls, sent_log, offered, pushed,
                   wire, close_calls>>

\* the hook outside the lock: concatenate and session->pushTransientBuffer
ReplayPush(s) ==
    /\ ready_pc[s] = "push"
    /\ LET big_buffer == BigBuffer(buffers_to_send[s]) IN
       IF big_buffer = <<>>
       THEN UNCHANGED <<send_state, pending_frame, wire, pushed>>
       ELSE /\ SetSessionIo(s, pushTransientBuffer(s, big_buffer))
            /\ pushed' = [pushed EXCEPT ![s] = Append(@, big_buffer)]
    /\ ready_pc' = [ready_pc EXCEPT ![s] = "done"]
    /\ buffers_to_send' = [buffers_to_send EXCEPT ![s] = <<>>]
    /\ handshake_state' = [handshake_state EXCEPT ![s] = Established(s)]
    /\ UNCHANGED <<pubVars, userVars, acceptVars, close_pc, now, limits, execVars, poolVars, calls, sent_log,
                   offered, close_calls, aged_out>>

\* an asynchronous write of the session completes
WriteCompleted(s) ==
    /\ send_state[s] = "Writing"
    /\ handshake_state[s] # "Failed"
    /\ SetSessionIo(s, writeCompleted(s))
    /\ UNCHANGED <<pubVars, userVars, acceptVars, handshake_state, close_pc,
                   ready_pc, buffers_to_send, now, limits, execVars, poolVars, calls, sent_log, offered,
                   pushed, close_calls, aged_out>>

\* the steady clock advances
Tick ==
    /\ now < limits.clock
    /\ now' = now + 1
    /\ UNCHANGED <<pubVars, userVars, acceptVars, sessVars, limits, execVars, poolVars, histVars>>

(***************************************************************************)
(* Publisher_Impl::send                                                    *)
(***************************************************************************)
\* allocate, resize, header and payload copy; the arguments are not read again
Filled(t) ==
    [snd[t] EXCEPT !.pc = "lock", !.buffer = FillBuffer(snd[t].old, snd[t].payloads),
                   !.payloads = <<>>, !.old = NoBuf]

Returned(value) == [IdleSend EXCEPT !.ret = value]

\* a gate that lets every call through
GateIgnored == FALSE

\* if (!is_running_) return false
NotRunning == ~is_running_

\* the call and its gate on is_running_; with retention enabled the buffer is
\* prepared right away
SendCall(t, payloads, old) ==
    /\ start_pc = "done"
    /\ snd[t].pc = "idle"
    /\ calls < limits.sends
    /\ calls' = calls + 1
    /\ IF NotRunning
       THEN /\ snd' = [snd EXCEPT ![t] = Returned("false")]
            /\ UNCHANGED sent_log
       ELSE /\ sent_log' = Append(sent_log, payloads)
            /\ snd' = [snd EXCEPT ![t] =
                   IF transient_local_setting_.buffer_max_count_ = 0
                   THEN [IdleSend EXCEPT !.pc = "short", !.payloads = payloads, !.old = old]
                   ELSE [IdleSend EXCEPT !.pc = "lock",
                                         !.buffer = FillBuffer(old, payloads)]]
    /\ UNCHANGED <<pubVars, start_pc, cnl, acceptVars, sessVars, now, limits, execVars,
                   offered, pushed, wire, close_calls, aged_out>>

\* retention disabled: nothing is prepared when no subscriber is connected
SendShortCircuit(t) ==
    /\ snd[t].pc = "short"
    /\ publisher_sessions_mutex_ = 0
    /\ snd' = [snd EXCEPT ![t] =
           IF publisher_sessions_ = <<>> THEN Returned("true") ELSE Filled(t)]
    /\ UNCHANGED <<pubVars, start_pc, cnl, acceptVars, sessVars, now, limits, execVars, poolVars, histVars>>

\* a fan-out that does not wait for the mutex
FanOutUnlocked(t) == TRUE

\* std::lock_guard<std::mutex> publisher_sessions_lock(publisher_sessions_mutex_)
\* blocks thread t while another thread holds the mutex
FanOutLock(t) == publisher_sessions_mutex_ = 0

\* the fan-out block is entered under publisher_sessions_mutex_
SendLock(t) ==
    /\ snd[t].pc = "lock"
    /\ FanOutLock(t)
    /\ publisher_sessions_mutex_' = t
    /\ snd' = [snd EXCEPT ![t].pc = "fan", ![t].idx = 1]
    /\ UNCHANGED <<is_running_, acceptor_, publisher_sessions_,
                   transient_local_buffers_, transient_local_mtx_,
                   transient_local_setting_, start_pc, cnl, acceptVars, sessVars,
                   now, limits, execVars, poolVars, histVars>>

\* one round of the fan-out loop: publisher_session->sendDataBuffer(buffer)
SendFanOut(t) ==
    /\ snd[t].pc = "fan"
    /\ snd[t].idx <= Len(publisher_sessions_)
    /\ LET s == publisher_sessions_[snd[t].idx] IN
       /\ SetSessionIo(s, sendDataBuffer(s, snd[t].buffer))
       /\ offered' = [offered EXCEPT ![s] = Append(@, snd[t].buffer)]
    /\ snd' = [snd EXCEPT ![t].idx = @ + 1]
    /\ UNCHANGED <<pubVars, start_pc, cnl, acceptVars, handshake_state, close_pc,
                   ready_pc, buffers_to_send, now, limits, execVars, poolVars, calls, sent_log, pushed,
                   close_calls, aged_out>>

\* a fan-out block that reaches over the transient local push
FanOutLockKept(t) == t

\* the closing brace of the fan-out block: publisher_sessions_lock is released
FanOutLockReleased(t) == 0

\* the end of the fan-out block releases the mutex; without retention send
\* returns true
SendUnlock(t) ==
    /\ snd[t].pc = "fan"
    /\ snd[t].idx > Len(publisher_sessions_)
    /\ publisher_sessions_mutex_' = FanOutLockReleased(t)
    /\ snd' = [snd EXCEPT ![t] =
           IF transient_local_setting_.buffer_max_count_ > 0
           THEN [snd[t] EXCEPT !.pc = "retain", !.idx = 0]
           ELSE Returned("true")]
    /\ UNCHANGED <<is_running_, acceptor_, publisher_sessions_,
                   transient_local_buffers_, transient_local_mtx_,
                   transient_local_setting_, start_pc, cnl, acceptVars, sessVars,
                   now, limits, execVars, poolVars, histVars>>

\* the element put at the head of the list
push_front(buffers, ele) == <<ele>> \o buffers

\* transient_local_buffers_.push_back(ele)
push_back(buffers, ele) == Append(buffers, ele)

\* under transient_local_mtx_: now_tp is read and the element is appended
SendRetain(t) ==
    /\ snd[t].pc = "retain"
    /\ transient_local_mtx_ = 0
    /\ transient_local_mtx_' = t
    /\ transient_local_buffers_' =
           push_back(transient_local_buffers_,
                     [buffer_ |-> snd[t].buffer, enqueue_tp_ |-> now])
    /\ snd' = [snd EXCEPT ![t].pc = "purge", ![t].now_tp = now]
    /\ UNCHANGED <<is_running_, acceptor_, publisher_sessions_,
                   publisher_sessions_mutex_, transient_local_setting_, start_pc,
                   cnl, acceptVars, sessVars, now, limits, execVars, poolVars, histVars>>

\* still under the mutex: purge at now_tp; the mutex is released and send
\* returns true
SendPurge(t) ==
    /\ snd[t].pc = "purge"
    /\ transient_local_buffers_' =
           purgeExpiredTransientLocalBuffers(transient_local_buffers_, snd[t].now_tp)
    /\ aged_out' = (aged_out \/ PurgePopsForAge(transient_local_buffers_, snd[t].now_tp))
    /\ transient_local_mtx_' = 0
    /\ snd' = [snd EXCEPT ![t] = Returned("true")]
    /\ UNCHANGED <<is_running_, acceptor_, publisher_sessions_,
                   publisher_sessions_mutex_, transient_local_setting_, start_pc,
                   cnl, acceptVars, sessVars, now, limits, execVars, poolVars, calls, sent_log, offered,
                   pushed, wire, close_calls>>

(***************************************************************************)
(* Specifications                                                          *)
(***************************************************************************)
AcceptChain ==
    \/ Connect
    \/ AcceptHandlerBegin
    \/ AcceptHandlerAdd
    \/ AcceptHandlerRearm

ReadyHook ==
    \/ \E s \in Sessions : ReplayDisabled(s)
    \/ \E s \in Sessions : ReplaySnapshot(s)
    \/ \E s \in Sessions : ReplayPush(s)

SessionEvents ==
    \/ \E s \in Sessions : WriteCompleted(s)
    \/ \E s \in Sessions : IoError(s)
    \/ \E s \in Sessions : CloseCallback(s)

SendSteps(t) ==
    \/ SendShortCircuit(t)
    \/ SendLock(t)
    \/ SendFanOut(t)
    \/ SendUnlock(t)
    \/ SendRetain(t)
    \/ SendPurge(t)

Cancel ==
    \/ CancelClose
    \/ CancelFlag
    \/ CancelSnapshot
    \/ CancelSession

Environment(senders, sends, sessions, clock, cancels) ==
    [senders |-> senders, sends |-> sends, sessions |-> sessions, clock |-> clock,
     cancels |-> cancels]

\* The publisher's life: start with any outcome, subscribers that connect,
\* fail and are closed, cancel called twice, and one thread that sends.
Init ==
    \E setting \in Settings :
        InitWith(setting, Environment(1, 1, MaxSessions, 0, MaxCancels))

Next ==
    \/ \E outcome \in StartOutcomes : Start(outcome)
    \/ AcceptChain
    \/ AcceptError
    \/ ReadyHook
    \/ SessionEvents
    \/ Cancel
    \/ \E t \in 1..limits.senders :
          SendCall(t, Msg(calls + 1), NoBuf) /\ UNCHANGED poolVars
    \/ \E t \in 1..limits.senders : SendSteps(t)

Spec == Init /\ [][Next]_vars

\* Concurrent sends to sessions that connect, shake hands, write and fail;
\* the publisher is never cancelled and time does not matter (lifespan_ = 0).
FanOutSettings ==
    { [buffer_max_count_ |-> k, lifespan_ |-> 0] : k \in 0..1 }

InitFanOut ==
    \E setting \in FanOutSettings :
        InitWith(setting, Environment(NumSenders, FanSends, MaxSessions, 0, 0))

NextFanOut ==
    \/ Start("ok")
    \/ AcceptChain
    \/ ReadyHook
    \/ SessionEvents
    \/ \E t \in 1..limits.senders :
          SendCall(t, Msg(calls + 1), NoBuf) /\ UNCHANGED poolVars
    \/ \E t \in 1..limits.senders : SendSteps(t)

SpecFanOut == InitFanOut /\ [][NextFanOut]_vars

\* Retention: concurrent sends, the clock, and one subscriber whose on_ready
\* hook runs at any moment, under every setting.  The session's socket events
\* are left out: the retention buffer does not depend on them.
InitRetain ==
    \E setting \in Settings :
        InitWith(setting, Environment(NumSenders, MaxSends, 1, MaxClock, 0))

NextRetain ==
    \/ Start("ok")
    \/ AcceptChain
    \/ ReadyHook
    \/ Tick
    \/ \E t \in 1..limits.senders :
          SendCall(t, Msg(calls + 1), NoBuf) /\ UNCHANGED poolVars
    \/ \E t \in 1..limits.senders : SendSteps(t)

SpecRetain == InitRetain /\ [][NextRetain]_vars

\* Sequential sends of one thread with count eviction only, and a subscriber.
SeqSettings ==
    { [buffer_max_count_ |-> k, lifespan_ |-> 0] : k \in 1..MaxCount }

InitSeq ==
    \E setting \in SeqSettings :
        InitWith(setting, Environment(1, MaxSends, 1, 0, 0))

NextSeq ==
    \/ Start("ok")
    \/ AcceptChain
    \/ \E s \in Sessions : ReplaySnapshot(s)
    \/ \E s \in Sessions : ReplayPush(s)
    \/ SendCall(1, Msg(calls + 1), NoBuf) /\ UNCHANGED poolVars
    \/ SendLock(1)
    \/ SendFanOut(1)
    \/ SendUnlock(1)
    \/ SendRetain(1)
    \/ SendPurge(1)

SpecSeq == InitSeq /\ [][NextSeq]_vars

\* One send of any payload list, into a new or a recycled buffer, to one
\* subscriber.
InitFrame ==
    \E setting \in FanOutSettings :
        InitWith(setting, Environment(1, 1, 1, 0, 0))

NextFrame ==
    \/ Start("ok")
    \/ AcceptChain
    \/ ReadyHook
    \/ \E payloads \in PayloadLists, old \in AllocatedBuffers :
          SendCall(1, payloads, old) /\ UNCHANGED poolVars
    \/ SendSteps(1)

SpecFrame == InitFrame /\ [][NextFrame]_vars

(***************************************************************************)
(* Properties                                                              *)
(***************************************************************************)
InSessions(s) == \E i \in DOMAIN publisher_sessions_ : publisher_sessions_[i] = s

\* C1: for every accepted session the close-callback runs at most once, and
\* once it has run the session is not in publisher_sessions_ (so that
\* getSubscriberCount no longer counts it), however the accept handler and
\* the close-callback interleave.
C1_ClosedOnceThenAbsent ==
    \A s \in Sessions :
        /\ close_calls[s] <= 1
        /\ close_calls[s] >= 1 => ~InSessions(s)

(***************************************************************************)
(* buffer_pool: the vectors send checks out, and who refers to them        *)
(***************************************************************************)
\* the pooled vector in which send built the frame (the frame of the k-th
\* call carries the payload byte k)
SlotOf(frame) == slot_of_call[frame[TcpHeaderSize + 1]]

\* an element that keeps no reference to its buffer
RetainedHoldsNoReference == {}

\* ele.buffer_ = buffer: every retained element holds a reference
RetainedRefs ==
    {transient_local_buffers_[i].buffer_ : i \in DOMAIN transient_local_buffers_}

\* the shared_ptr send holds from allocate() until it returns
SendRefs == {snd[t].buffer : t \in Senders} \ {NoBuf}

\* buffers_to_send.push_back(buffer.buffer_): the hook's copies
HookRefs ==
    UNION { {buffers_to_send[s][i] : i \in DOMAIN buffers_to_send[s]} : s \in Sessions }

\* a session refers to the frame it is writing and to its pending frame
SessionRefs ==
    {pending_frame[s].buf : s \in {r \in Sessions : pending_frame[r].kind = "regular"}}
        \cup {wire[s][Len(wire[s])].buf :
                 s \in {r \in Sessions : /\ send_state[r] = "Writing"
                                          /\ wire[r] # <<>>
                                          /\ wire[r][Len(wire[r])].kind = "regular"}}

\* the last reference to a vector drops: it is back in the pool
Referenced(b) ==
    \E frame \in SendRefs \cup RetainedRefs \cup HookRefs \cup SessionRefs :
        SlotOf(frame) = b

\* allocate(): a vector of the pool, or a new one when the pool is empty
Allocatable(b) ==
    LET used == {slot_of_call[k] : k \in DOMAIN slot_of_call}
        pooled == {c \in used : ~Referenced(c)}
    IN  IF pooled # {} THEN b \in pooled
        ELSE b \notin used /\ \A c \in Slots : c < b => c \in used

\* send with its buffer taken from the pool: the vector's old bytes are what
\* resize starts from, the frame is built in the vector
SendFromPool(t, b) ==
    /\ Allocatable(b)
    /\ SendCall(t, Msg(calls + 1), slot_bytes[b])
    /\ slot_of_call' = Append(slot_of_call, b)
    /\ slot_bytes' = [slot_bytes EXCEPT ![b] = snd'[t].buffer]

\* Sends of several threads with retention, a subscriber, and the pool.
PoolSettings == { [buffer_max_count_ |-> 1, lifespan_ |-> 0] }

InitPool ==
    \E setting \in PoolSettings :
        InitWith(setting, Environment(NumSenders, MaxSends, 1, 0, 0))

NextPool ==
    \/ Start("ok")
    \/ AcceptChain
    \/ \E s \in Sessions : ReplaySnapshot(s)
    \/ \E s \in Sessions : ReplayPush(s)
    \/ \E s \in Sessions : WriteCompleted(s)
    \/ \E t \in 1..limits.senders, b \in Slots : SendFromPool(t, b)
    \/ \E t \in 1..limits.senders : SendLock(t)
    \/ \E t \in 1..limits.senders : SendFanOut(t)
    \/ \E t \in 1..limits.senders : SendUnlock(t)
    \/ \E t \in 1..limits.senders : SendRetain(t)
    \/ \E t \in 1..limits.senders : SendPurge(t)

SpecPool == InitPool /\ [][NextPool]_vars

(***************************************************************************)
(* Executor_Impl: the io_service, its work object and the worker threads   *)
(***************************************************************************)
publisherVars == <<pubVars, userVars, acceptVars, sessVars, now, limits, poolVars, histVars>>

\* what keeps io_service::run() from returning: the work object, the handlers
\* that are queued and the handlers that are running
OutstandingWork ==
    (IF dummy_work_ THEN 1 ELSE 0) + Len(handler_queue)
        + Cardinality({w \in Workers : thread_pool_[w] = "handler"})

\* the handlers that were ever posted
Posted ==
    {handler_queue[i] : i \in DOMAIN handler_queue}
        \cup {running_handler[w] : w \in Workers} \cup executed

\* start(thread_count): thread_pool_.emplace_back for every thread
ExecutorStart(thread_count) ==
    /\ exec_pc.start = "new"
    /\ exec_pc' = [exec_pc EXCEPT !.start = "done"]
    /\ thread_pool_' = [w \in Workers |-> IF w <= thread_count THEN "spawned" ELSE "none"]
    /\ UNCHANGED <<dummy_work_, io_stopped, handler_queue, running_handler, executed,
                   pending_at_stop, in_run_at_stop, publisherVars>>

\* the thread's lambda reaches me->io_service_->run(); on a stopped
\* io_service run() returns at once
WorkerRun(w) ==
    /\ thread_pool_[w] = "spawned"
    /\ thread_pool_' = [thread_pool_ EXCEPT ![w] = IF io_stopped THEN "exited" ELSE "run"]
    /\ UNCHANGED <<dummy_work_, io_stopped, handler_queue, running_handler, exec_pc,
                   executed, pending_at_stop, in_run_at_stop, publisherVars>>

\* a completion handler becomes ready, or a function is posted
Post(h) ==
    /\ h \notin Posted
    /\ \A g \in Handlers : g < h => g \in Posted
    /\ handler_queue' = Append(handler_queue, h)
    /\ UNCHANGED <<dummy_work_, io_stopped, thread_pool_, running_handler, exec_pc,
                   executed, pending_at_stop, in_run_at_stop, publisherVars>>

\* run(): a worker takes the oldest ready handler
WorkerTake(w) ==
    /\ thread_pool_[w] = "run"
    /\ ~io_stopped
    /\ handler_queue # <<>>
    /\ thread_pool_' = [thread_pool_ EXCEPT ![w] = "handler"]
    /\ running_handler' = [running_handler EXCEPT ![w] = Head(handler_queue)]
    /\ handler_queue' = Tail(handler_queue)
    /\ UNCHANGED <<dummy_work_, io_stopped, exec_pc, executed, pending_at_stop,
                   in_run_at_stop, publisherVars>>

\* the handler returns to run()
WorkerDone(w) ==
    /\ thread_pool_[w] = "handler"
    /\ thread_pool_' = [thread_pool_ EXCEPT ![w] = "run"]
    /\ executed' = executed \cup {running_handler[w]}
    /\ running_handler' = [running_handler EXCEPT ![w] = 0]
    /\ UNCHANGED <<dummy_work_, io_stopped, handler_queue, exec_pc, pending_at_stop,
                   in_run_at_stop, publisherVars>>

\* run() returns: the io_service is stopped, or it has run out of work (it
\* is stopped then); the thread's lambda ends
WorkerLeave(w) ==
    /\ thread_pool_[w] = "run"
    /\ io_stopped \/ OutstandingWork = 0
    /\ thread_pool_' = [thread_pool_ EXCEPT ![w] = "exited"]
    /\ io_stopped' = TRUE
    /\ UNCHANGED <<dummy_work_, handler_queue, running_handler, exec_pc, executed,
                   pending_at_stop, in_run_at_stop, publisherVars>>

\* stop(): dummy_work_.reset()
StopReset ==
    /\ exec_pc.start = "done"
    /\ exec_pc.stop = "idle"
    /\ exec_pc' = [exec_pc EXCEPT !.stop = "reset"]
    /\ dummy_work_' = FALSE
    /\ pending_at_stop' = {handler_queue[i] : i \in DOMAIN handler_queue}
    /\ in_run_at_stop' = {w \in Workers : thread_pool_[w] \in {"run", "handler"}}
    /\ UNCHANGED <<io_stopped, thread_pool_, handler_queue, running_handler, executed,
                   publisherVars>>

\* stop(): io_service_->stop()
StopIoService ==
    /\ exec_pc.stop = "reset"
    /\ exec_pc' = [exec_pc EXCEPT !.stop = "done"]
    /\ io_stopped' = TRUE
    /\ UNCHANGED <<dummy_work_, thread_pool_, handler_queue, running_handler, executed,
                   pending_at_stop, in_run_at_stop, publisherVars>>

\* The executor on its own: start with any number of threads, handlers that
\* become ready at any moment, and stop.
InitExecutor ==
    InitWith([buffer_max_count_ |-> 0, lifespan_ |-> 0], Environment(0, 0, 0, 0, 0))

NextExecutor ==
    \/ \E thread_count \in 0..MaxWorkers : ExecutorStart(thread_count)
    \/ \E w \in Workers : WorkerRun(w)
    \/ \E h \in Handlers : Post(h)
    \/ \E w \in Workers : WorkerTake(w)
    \/ \E w \in Workers : WorkerDone(w)
    \/ \E w \in Workers : WorkerLeave(w)
    \/ StopReset
    \/ StopIoService

SpecExecutor == InitExecutor /\ [][NextExecutor]_vars

(***************************************************************************)
(* Retention properties                                                    *)
(***************************************************************************)
MaxCountSet == transient_local_setting_.buffer_max_count_
LifespanSet == transient_local_setting_.lifespan_

\* C2: with buffer_max_count_ = K the retention buffer holds at most K
\* elements whenever transient_local_mtx_ is not held, whatever sends and
\* on_ready hooks have run; with K = 0 it is empty in every state.
C2_CountBound ==
    /\ transient_local_mtx_ = 0 => Len(transient_local_buffers_) <= MaxCountSet
    /\ MaxCountSet = 0 => transient_local_buffers_ = <<>>

\* more sends than the largest count have been retained and evicted down to it
C2_Witness ==
    /\ MaxCountSet = MaxCount
    /\ transient_local_mtx_ = 0
    /\ Len(transient_local_buffers_) = MaxCount
    /\ Len(sent_log) > MaxCount
    /\ \A t \in Senders : snd[t].pc = "idle"

\* a step that ends an eviction pass of send thread t
SendPassEnds(t) == snd[t].pc = "purge" /\ snd'[t].pc # "purge"
\* a step in which the on_ready hook of session s makes its eviction pass
HookPassEnds(s) == ready_pc[s] = "none" /\ ready_pc'[s] # "none" /\ MaxCountSet # 0

AllWithinLifespan(buffers, now_tp) ==
    \A i \in DOMAIN buffers : now_tp - buffers[i].enqueue_tp_ <= LifespanSet

\* C3: with lifespan_ = L > 0, right after an eviction pass made at now_tp (by
\* a send or by an on_ready hook) every retained element has
\* now_tp - enqueue_tp_ <= L; with lifespan_ = 0 no element is ever evicted
\* because of its age.
C3_AgeBound ==
    /\ [][ /\ \A t \in Senders :
                SendPassEnds(t) /\ LifespanSet > 0
                    => AllWithinLifespan(transient_local_buffers_', snd[t].now_tp)
           /\ \A s \in Sessions :
                HookPassEnds(s) /\ LifespanSet > 0
                    => AllWithinLifespan(transient_local_buffers_', now) ]_vars
    /\ [](LifespanSet = 0 => ~aged_out)

\* an element has been evicted for its age although the count allowed it, and
\* a younger one is retained
C3_Witness ==
    /\ LifespanSet > 0
    /\ aged_out
    /\ transient_local_buffers_ # <<>>
    /\ transient_local_mtx_ = 0

RECURSIVE Flatten(_)
Flatten(seqs) == IF seqs = <<>> THEN <<>> ELSE Head(seqs) \o Flatten(Tail(seqs))

RetainedBuffers(buffers) == [i \in 1..Len(buffers) |-> buffers[i].buffer_]

\* C4: when the on_ready hook of a session runs with retention enabled, the
\* one buffer it hands to pushTransientBuffer is the concatenation, in list
\* order, of the buffers retained after the hook's eviction pass; when nothing
\* is retained, or retention is disabled, pushTransientBuffer is not called.
C4_ReplayIsConcatenation ==
    [][ \A s \in Sessions :
          /\ ready_pc[s] = "none" /\ ready_pc'[s] = "push"
                => /\ MaxCountSet > 0
                   /\ transient_local_buffers_' # <<>>
                   /\ buffers_to_send'[s] = RetainedBuffers(transient_local_buffers_')
          /\ ready_pc[s] = "push" /\ ready_pc'[s] = "done"
                => pushed'[s] = <<Flatten(buffers_to_send[s])>>
          /\ ready_pc[s] = "none" /\ ready_pc'[s] = "done"
                => /\ MaxCountSet = 0 \/ transient_local_buffers_' = <<>>
                   /\ pushed'[s] = <<>>
          /\ ~(ready_pc[s] = "push" /\ ready_pc'[s] = "done")
                => pushed'[s] = pushed[s] ]_vars

\* a replay of two retained frames, made after an older frame was evicted
C4_Witness ==
    \E s \in Sessions :
        /\ Len(pushed[s]) = 1
        /\ Len(pushed[s][1]) >= 2 * (TcpHeaderSize + 1)
        /\ Len(sent_log) > 2

(***************************************************************************)
(* Replay and fan-out order                                                *)
(***************************************************************************)

PayloadBytes(payloads) == Flatten([i \in 1..Len(payloads) |-> payloads[i].data])

\* the frame of section 6 for n payload bytes, n < 2^16: header_size 16 in two
\* bytes, type 0, reserved 0, data_size in eight bytes, four bytes of padding
ExpectedFrame(bytes) ==
    <<16, 0, 0, 0, Len(bytes) % 256, Len(bytes) \div 256, 0, 0, 0, 0, 0, 0, 0, 0, 0, 0>>
        \o bytes

\* the sends whose frame has been appended to the retention buffer
Completed ==
    LET inflight == Cardinality({t \in Senders :
                        snd[t].pc \in {"short", "lock", "fan", "retain"}})
    IN  SubSeq(sent_log, 1, Len(sent_log) - inflight)

\* the frames of the last min(n, K) of the sends in log, oldest first
LastRetained(log) ==
    LET n == Len(log)
        m == IF n < MaxCountSet THEN n ELSE MaxCountSet
    IN  [i \in 1..m |-> ExpectedFrame(PayloadBytes(log[n - m + i]))]

\* C6: with buffer_max_count_ = K > 0 and lifespan_ = 0, after sends P1..Pn
\* made one after the other the retention buffer holds the frames of the last
\* min(n, K) payloads in send order, and the hook of a subscriber that
\* connects then pushes exactly their concatenation.
C6_SequentialRetention ==
    /\ [](transient_local_mtx_ = 0
            => RetainedBuffers(transient_local_buffers_) = LastRetained(Completed))
    /\ [][ \A s \in Sessions :
             /\ ready_pc[s] = "none" /\ ready_pc'[s] = "push"
                   => buffers_to_send'[s] = LastRetained(Completed)
             /\ ready_pc[s] = "none" /\ ready_pc'[s] = "done"
                   => LastRetained(Completed) = <<>>
             /\ ready_pc[s] = "push" /\ ready_pc'[s] = "done"
                   => pushed'[s] = <<Flatten(buffers_to_send[s])>> ]_vars

\* more sends than the count, all made before the subscriber connected, and
\* the subscriber was replayed the last ones
C6_Witness ==
    /\ MaxCountSet = MaxCount
    /\ Len(sent_log) = MaxSends
    /\ \A t \in Senders : snd[t].pc = "idle"
    /\ \E s \in Sessions :
          /\ offered[s] = <<>>
          /\ pushed[s] = <<Flatten(LastRetained(sent_log))>>

\* C7: send on a publisher that is not running returns false at once and
\* changes nothing: no frame is offered to a session and nothing is retained.
C7_SendWhenNotRunning ==
    [][ calls' # calls /\ ~is_running_
          => /\ \E t \in Senders :
                   /\ snd[t].pc = "idle"
                   /\ snd' = [snd EXCEPT ![t] = [IdleSend EXCEPT !.ret = "false"]]
             /\ UNCHANGED <<pubVars, acceptVars, sessVars, offered, pushed, wire,
                            sent_log>> ]_vars

\* a send has returned false on a publisher that was cancelled
C7_Witness ==
    /\ ~is_running_
    /\ \E t \in Senders : snd[t].pc = "idle" /\ snd[t].ret = "false"
    /\ calls >= 1
    /\ cnl.done >= 1

PositionIn(log, buffer) == CHOOSE i \in DOMAIN log : log[i] = buffer
OfferedTo(s) == {offered[s][i] : i \in DOMAIN offered[s]}

\* C10: the fan-outs of concurrent send calls do not interleave: two frames
\* that were both offered to two sessions were offered to both in the same
\* order.
C10_FanOutsSerialised ==
    \A s1, s2 \in Sessions :
        \A a, b \in OfferedTo(s1) \cap OfferedTo(s2) :
            PositionIn(offered[s1], a) < PositionIn(offered[s1], b)
                <=> PositionIn(offered[s2], a) < PositionIn(offered[s2], b)

\* two sessions have been offered the frames of two sends, one of which had to
\* wait for the other's fan-out
C10_Witness ==
    /\ Len(publisher_sessions_) = 2
    /\ \A s \in Sessions : Len(offered[s]) = 2
    /\ offered[1] = offered[2]
    /\ offered[1][1] # offered[1][2]

(***************************************************************************)
(* Framing and cancellation                                                *)
(***************************************************************************)
SumOfLengths(payloads, n) == EntirePayloadSize(SubSeq(payloads, 1, n))

\* frame has the layout of section 6 for the payload list: a header that says
\* 16, RegularPayload, 0 and the sum of all lengths, then that many bytes in
\* which every entry has its length, in list order, and the bytes it points at
FrameOf(frame, payloads) ==
    LET total == SumOfLengths(payloads, Len(payloads)) IN
    /\ Len(frame) = TcpHeaderSize + total
    /\ frame[1] + 256 * frame[2] = TcpHeaderSize
    /\ frame[3] = RegularPayload
    /\ frame[4] = 0
    /\ frame[5] + 256 * frame[6] = total
    /\ \A k \in 7..12 : frame[k] = 0
    /\ \A i \in DOMAIN payloads :
          payloads[i].ptr =>
              \A j \in 1..payloads[i].len :
                  frame[TcpHeaderSize + SumOfLengths(payloads, i - 1) + j]
                      = payloads[i].data[j]

\* C8: for every list of (pointer, length) entries passed to a send that
\* returns true with a subscriber, the frame offered to the session is the
\* header (header_size, RegularPayload, 0, data_size = sum of all lengths)
\* followed by data_size bytes, the payloads one after the other in list order.
C8_FrameLayout ==
    \A s \in Sessions :
        \A i \in DOMAIN offered[s] : FrameOf(offered[s][i], sent_log[i])

\* C9: cancel is idempotent: a second call ends in the state the first call
\* ended in (listener closed, is_running_ false, same session set) and runs no
\* further close-callback; no session's close-callback ever runs twice.
C9_CancelIdempotent ==
    /\ LET once == cancelRun(PublisherState) IN
          /\ cancelRun(once) = once
          /\ once.acceptor_ = "closed"
          /\ ~once.is_running_
          /\ \A s \in Sessions : once.close_calls[s] <= 1
    /\ cnl.done >= 1 => acceptor_ = "closed" /\ ~is_running_
    /\ \A s \in Sessions : close_calls[s] <= 1

\* the second call of cancel has returned, and a call had closed a session
C9_Witness ==
    /\ cnl.done = MaxCancels
    /\ cnl.pc = "idle"
    /\ \E s \in Sessions : close_calls[s] = 1 /\ ~InSessions(s)


(***************************************************************************)
(* Write pressure, start failures                                          *)
(***************************************************************************)
\* the regular frames session s has written, in the order of writing
RECURSIVE RegularFrames(_)
RegularFrames(frames) ==
    IF frames = <<>> THEN <<>>
    ELSE IF Head(frames).kind = "regular"
         THEN <<Head(frames).buf>> \o RegularFrames(Tail(frames))
         ELSE RegularFrames(Tail(frames))

\* a is b with some elements left out
RECURSIVE IsSubsequence(_, _)
IsSubsequence(a, b) ==
    IF a = <<>> THEN TRUE
    ELSE IF b = <<>> THEN FALSE
    ELSE IF Head(a) = Head(b) THEN IsSubsequence(Tail(a), Tail(b))
    ELSE IsSubsequence(a, Tail(b))

\* C11: under write pressure the regular frames a session writes are a
\* subsequence of the frames send fanned out to it, in fan-out order: frames
\* may be dropped, none is reordered or written twice, and two sessions write
\* the frames they both write in the same order.
C11_WrittenIsSubsequence ==
    /\ \A s \in Sessions : IsSubsequence(RegularFrames(wire[s]), offered[s])
    /\ \A s1, s2 \in Sessions :
          LET w1 == RegularFrames(wire[s1])
              w2 == RegularFrames(wire[s2])
          IN  \A a, b \in {w1[i] : i \in DOMAIN w1} \cap {w2[i] : i \in DOMAIN w2} :
                  PositionIn(w1, a) < PositionIn(w1, b)
                      <=> PositionIn(w2, a) < PositionIn(w2, b)

\* two frames were offered to a session while a write was in flight: the
\* older one was dropped, the newer one was written
C11_Witness ==
    \E s \in Sessions :
        /\ Len(offered[s]) = 2
        /\ RegularFrames(wire[s]) = <<offered[s][2]>>
        /\ send_state[s] = "Idle"

\* C12: when a step of start fails (address parse, open, reuse_address, bind,
\* listen), the publisher stays non-running, no accept is armed and the
\* acceptor is as it was before the call: closed.
C12_StartFailsCleanly ==
    [][ start_pc = "new" /\ start_pc' = "done" /\ ~is_running_'
          => /\ acceptor_' = acceptor_
             /\ acceptor_' = "closed"
             /\ accept_op' = "none"
             /\ accept_session' = accept_session ]_vars


\* C13: after start(thread_count) and before stop is called no worker thread
\* leaves io_service::run(), also when no handler is queued or running: the
\* work object keeps run() from returning.
C13_WorkersStayUntilStop ==
    exec_pc.stop = "idle" => \A w \in Workers : thread_pool_[w] # "exited"

\* every worker sits idle in run(): all handlers have run, stop was not called
C13_Witness ==
    /\ exec_pc.stop = "idle"
    /\ \A w \in Workers : thread_pool_[w] = "run"
    /\ handler_queue = <<>>
    /\ executed = Handlers

\* C14: every handler that was ready when stop() was called has been run by
\* a worker when the workers, all of which had entered io_service::run()
\* before stop() was called, have left it.
C14_PendingHandlersDrain ==
    /\ exec_pc.stop = "done"
    /\ \A w \in Workers : thread_pool_[w] = "exited"
    /\ in_run_at_stop = Workers
    => pending_at_stop \subseteq executed


(***************************************************************************)
(* The session set, the mutexes, the accept loop                           *)
(***************************************************************************)
\* the close-callback of s has been queued or is running
ClosePending(s) == close_pc[s] \in {"io", "cancel"}
\* the accept handler has started s and is about to add it to the list
AddPending(s) == accept_pc = "add" /\ accept_session = s

\* C15: a session is in publisher_sessions_ if and only if its socket is open
\* and it has passed AwaitRemoteRecv: none is in the list before its handshake
\* has completed, none stays after its socket was closed.  (The moments in
\* which a handler is on its way to the list are left out.)
C15_InSetIffEstablished ==
    \A s \in Sessions :
        /\ InSessions(s) => handshake_state[s] = "Established" \/ ClosePending(s)
        /\ handshake_state[s] = "Established" => InSessions(s) \/ AddPending(s)


\* C16: no thread holds publisher_sessions_mutex_ and transient_local_mtx_ at
\* the same time, and the on_ready hook calls pushTransientBuffer only after
\* it has released transient_local_mtx_.
C16_MutexesNeverNested ==
    /\ \A t \in Senders :
          ~(publisher_sessions_mutex_ = t /\ transient_local_mtx_ = t)
    /\ \A s \in Sessions :
          /\ publisher_sessions_mutex_ # HookThread(s)
          /\ ready_pc[s] = "push" => transient_local_mtx_ # HookThread(s)

\* one thread is in its transient local push, having left the fan-out block,
\* while another thread is in its fan-out
C16_Witness ==
    \E t1, t2 \in Senders :
        /\ t1 # t2
        /\ transient_local_mtx_ = t1
        /\ publisher_sessions_mutex_ = t2

\* C17: transient_local_buffers_ is ordered by enqueue time, oldest first,
\* also when several threads send at the same time.
C17_OrderedByEnqueueTime ==
    \A i, j \in DOMAIN transient_local_buffers_ :
        i < j => transient_local_buffers_[i].enqueue_tp_
                    <= transient_local_buffers_[j].enqueue_tp_

\* two elements of different age are retained while another thread waits for
\* the mutex with its own element
C17_Witness ==
    /\ Len(transient_local_buffers_) >= 2
    /\ transient_local_buffers_[1].enqueue_tp_ < transient_local_buffers_[2].enqueue_tp_
    /\ \E t \in Senders : snd[t].pc = "retain"


\* the accept loop is over: no accept is armed, no handler of one is running
LoopEnded == start_pc = "done" /\ accept_op = "none" /\ accept_pc = "idle"

\* C18: the accept loop keeps at most one accept outstanding.  A successful
\* start arms exactly one; the handler of a successful accept starts the new
\* session, adds it to publisher_sessions_ and arms exactly one new accept;
\* after an accept has completed with an error no accept is armed any more
\* and no session is added.
C18_AcceptLoop ==
    /\ [](/\ accepts_armed <= 1
          /\ accept_pc # "idle" => accepts_armed = 0)
    /\ [][ /\ start_pc = "new" /\ is_running_' => accepts_armed' = 1
           /\ accept_op = "ok" /\ accept_op' = "none"
                 => /\ handshake_state'[accept_session] = "AwaitRemoteRecv"
                    /\ accept_pc' = "add"
           /\ accept_pc = "add" /\ accept_pc' # "add"
                 => /\ publisher_sessions_' = Append(publisher_sessions_, accept_session)
                    /\ accept_pc' = "rearm"
           /\ accept_pc = "rearm" /\ accept_pc' # "rearm"
                 => /\ accepts_armed' = 1
                    /\ accept_session' = accept_session + 1
           /\ accept_op = "err" /\ accept_op' = "none"
                 => /\ LoopEnded'
                    /\ accepts_armed' = 0
                    /\ UNCHANGED <<publisher_sessions_, handshake_state>>
           /\ LoopEnded
                 => /\ LoopEnded'
                    /\ accepts_armed' = 0
                    /\ \A s \in Sessions :
                          (\E i \in DOMAIN publisher_sessions_' : publisher_sessions_'[i] = s)
                              => InSessions(s) ]_vars

\* one subscriber was accepted and added, then the accept armed for the next
\* one failed and the loop ended; the publisher was not cancelled
C18_Witness ==
    /\ LoopEnded
    /\ is_running_
    /\ accept_session = 2
    /\ accepts_armed = 0
    /\ InSessions(1)
    /\ ~InSessions(2)


\* C20: once cancel has returned, every session that is in
\* publisher_sessions_, or gets into it later, has been cancelled: no session
\* is added after cancel has copied the list and is left running.
C20_NoSessionSurvivesCancel ==
    cnl.pc = "idle" /\ cnl.done >= 1
        => \A s \in Sessions : InSessions(s) => handshake_state[s] = "Failed"


(***************************************************************************)
(* Buffers after hand-off                                                  *)
(***************************************************************************)
\* the frames that were handed to a session, to the retention buffer or to
\* the hook's snapshot and are still there
HandedOff ==
    {transient_local_buffers_[i].buffer_ : i \in DOMAIN transient_local_buffers_}
        \cup SessionRefs
        \cup UNION { {buffers_to_send[s][i] : i \in DOMAIN buffers_to_send[s]} :
                     s \in Sessions }

\* C19: a frame buffer is not modified after hand-off: while a session or
\* the retention buffer refers to it, its vector holds the frame's bytes, so
\* it was not handed out by allocate() again and no later send wrote on it.
C19_NoWriteAfterHandOff ==
    \A frame \in HandedOff :
        /\ slot_bytes[SlotOf(frame)] = frame
        /\ \A t \in Senders :
              snd[t].buffer # NoBuf /\ SlotOf(snd[t].buffer) = SlotOf(frame)
                  => snd[t].buffer = frame

\* a vector went back to the pool and was handed out again, while the frame
\* of another call is still retained
C19_Witness ==
    /\ \E j, k \in DOMAIN slot_of_call : j < k /\ slot_of_call[j] = slot_of_call[k]
    /\ transient_local_buffers_ # <<>>
    /\ \E s \in Sessions : SessionRefs # {}


(***************************************************************************)
(* Retention order and fan-out order                                       *)
(***************************************************************************)
\* the place of a frame in the sequence of frames offered to session s by
\* the fan-out loops, 0 when it was not offered
OfferedAt(s, frame) ==
    IF \E i \in DOMAIN offered[s] : offered[s][i] = frame
    THEN CHOOSE i \in DOMAIN offered[s] : offered[s][i] = frame
    ELSE 0

\* C21: the retention buffer keeps the frames in the order of their fan-out:
\* of two retained frames that were both offered to a session under the
\* sessions lock, the one offered first stands first in
\* transient_local_buffers_, also with several sending threads.
C21_RetainedInFanOutOrder ==
    \A s \in Sessions :
        \A i, j \in DOMAIN transient_local_buffers_ :
            LET a == OfferedAt(s, transient_local_buffers_[i].buffer_)
                b == OfferedAt(s, transient_local_buffers_[j].buffer_)
            IN  i < j /\ a > 0 /\ b > 0 => a < b


(***************************************************************************)
(* Replay and live traffic of a new session                                *)
(***************************************************************************)
\* the send call a frame comes from: the k-th call sends the payload byte k
CallOf(frame) == frame[TcpHeaderSize + 1]

\* the frames of the big buffers that the hook pushed to session s
ReplayFrames(s) ==
    LET size == TcpHeaderSize + 1 IN
    UNION { {SubSeq(pushed[s][p], n * size + 1, (n + 1) * size) :
                n \in 0..((Len(pushed[s][p]) \div size) - 1)} :
            p \in DOMAIN pushed[s] }

\* the frames passed to session s by the fan-out loops
FanOutFrames(s) == {offered[s][i] : i \in DOMAIN offered[s]}

\* C22: a new session sees no gap between replay and live traffic: a retained
\* frame F that is not in the replay of session s was offered to s by F's own
\* fan-out; s never has a frame of an earlier send from its replay and a
\* frame of a later send from a fan-out while F reached it by neither.
C22_NoGapAfterReplay ==
    \A s \in Sessions :
        \A i \in DOMAIN transient_local_buffers_ :
            LET F == transient_local_buffers_[i].buffer_ IN
            /\ InSessions(s)
            /\ ready_pc[s] = "done"
            /\ \E before \in ReplayFrames(s) : CallOf(before) < CallOf(F)
            /\ \E after \in FanOutFrames(s) : CallOf(after) > CallOf(F)
            => F \in ReplayFrames(s) \cup FanOutFrames(s)

====
